---- MODULE Spec2Model ----
(***************************************************************************)
(* Model of parent_agent.py: the /route handler of the POS Parent Agent.   *)
(*                                                                         *)
(* A request is classified by an external language model, the reply is     *)
(* cleaned and parsed, and the handler branches on the intent: it creates  *)
(* a record in the external store (Notion), forwards to a child agent and  *)
(* patches a link back onto the record.  Every external call is one step   *)
(* of the model; what the collaborator answers is the step's input.        *)
(*                                                                         *)
(* Texts that the code edits character by character (clean_json_output)    *)
(* are sequences of one-character strings.  Other texts are TLA+ strings.  *)
(* JSON values are tagged records.                                         *)
(***************************************************************************)
EXTENDS Integers, Sequences, FiniteSets, TLC

VARIABLES
    client,     \* whether the classifier client is configured (GROQ_API_KEY)
    pc,         \* pc[r]: where request r is in route_message
    arrived,    \* arrived[r]: the instant request r was invoked
    message,    \* message[r]: data.get("message", "").strip()
    raw,        \* raw[r]: the classifier's text, stripped
    intent_data,\* intent_data[r]: json.loads(cleaned_raw)
    notion,     \* notion[r]: (notion_status, notion_id) of create_task_in_notion
    agent,      \* agent[r]: (code, body) of call_agent
    link,       \* link[r]: the link the request is about to patch
    calls,      \* calls[r]: the external calls request r has issued, in order
    resp,       \* resp[r]: the (body, http status) returned to the caller
    store,      \* the external store: record identifier -> properties
    sanIn,      \* a text handed to clean_json_output
    sanOut      \* what clean_json_output returned for it

vars == <<client, pc, arrived, message, raw, intent_data, notion, agent, link, calls, resp,
          store, sanIn, sanOut>>

routeVars == <<client, pc, arrived, message, raw, intent_data, notion, agent, link, calls,
               resp, store>>

(***************************************************************************)
(* Bounds                                                                  *)
(***************************************************************************)
\* requests that can be in flight together
MaxReqs == 2
\* tokens in the string value of a sanitized JSON text
MaxTokens == 2

AllReqs == 1..MaxReqs

(***************************************************************************)
(* JSON values and Python values                                           *)
(***************************************************************************)
None == [t |-> "null"]
Str(s) == [t |-> "str", s |-> s]
Num(n) == [t |-> "num", n |-> n]
List(q) == [t |-> "list", q |-> q]
\* a dict built from its members <<key, value>> in the order they were put:
\* a key keeps the place of its first member and the value of its last
RECURSIVE Keys(_)
Keys(q) ==
    IF q = <<>> THEN <<>>
    ELSE LET front == Keys(SubSeq(q, 1, Len(q) - 1))
             key == q[Len(q)][1]
         IN  IF \E i \in 1..Len(front) : front[i] = key
             THEN front
             ELSE Append(front, key)

Dict(q) ==
    [k \in { q[i][1] : i \in 1..Len(q) } |->
        q[CHOOSE i \in 1..Len(q) :
              /\ q[i][1] = k
              /\ \A j \in (i + 1)..Len(q) : q[j][1] # k][2]]

\* a JSON object as json.loads gives it: a dict, which keeps its keys in the
\* order of the text
Obj(q) == [t |-> "obj", keys |-> Keys(q), d |-> Dict(q)]

\* the members of an object, in the order of its keys
Members(v) == [i \in 1..Len(v.keys) |-> <<v.keys[i], v.d[v.keys[i]]>>]

\* v[key] = value on an object: a new key goes last, a known one stays put
SetItem(v, key, value) ==
    IF key \in DOMAIN v.d
    THEN Obj([i \in 1..Len(v.keys) |->
                 <<v.keys[i], IF v.keys[i] = key THEN value ELSE v.d[v.keys[i]]>>])
    ELSE Obj(Append(Members(v), <<key, value>>))
\* an instant rendered by datetime.isoformat()
Iso(at) == [t |-> "iso", at |-> at]

\* the empty dict
EmptyDict == [k \in {} |-> None]

\* dict.get(key, default)
Get(d, key, default) == IF key \in DOMAIN d THEN d[key] ELSE default

\* d[key] = value on a dict
Put(d, key, value) ==
    [k \in (DOMAIN d) \cup {key} |-> IF k = key THEN value ELSE d[k]]

\* Python truthiness of a JSON value
Truthy(v) ==
    CASE v.t = "null" -> FALSE
      [] v.t = "str"  -> v.s # ""
      [] v.t = "num"  -> v.n # 0
      [] v.t = "list" -> v.q # <<>>
      [] v.t = "text" -> v.q # <<>>
      [] v.t = "obj"  -> DOMAIN v.d # {}
      [] OTHER        -> TRUE

\* a or b
Or(a, b) == IF Truthy(a) THEN a ELSE b

(***************************************************************************)
(* clean_json_output, on sequences of characters                           *)
(***************************************************************************)
\* the backtick character
BT == "BT"
NL == "\n"
TAB == "\t"
CR == "\r"
FF == "\f"
\* whitespace characters that have no escape in a string, by code point
VT == "U+000B"
Separators == {"U+001C", "U+001D", "U+001E", "U+001F"}
NEL == "U+0085"
NBSP == "U+00A0"
UnicodeSpaces ==
    {"U+1680", "U+2000", "U+2001", "U+2002", "U+2003", "U+2004", "U+2005",
     "U+2006", "U+2007", "U+2008", "U+2009", "U+200A", "U+2028", "U+2029",
     "U+202F", "U+205F", "U+3000"}

\* the characters str.strip() removes: those for which str.isspace() holds
Whitespace ==
    {" ", NL, TAB, CR, FF, VT, NEL, NBSP} \cup Separators \cup UnicodeSpaces
Fence == <<BT, BT, BT>>
JsonTag == <<"j", "s", "o", "n">>

RECURSIVE LStrip(_, _)
LStrip(s, chars) ==
    IF s # <<>> /\ Head(s) \in chars THEN LStrip(Tail(s), chars) ELSE s

RECURSIVE RStrip(_, _)
RStrip(s, chars) ==
    IF s # <<>> /\ s[Len(s)] \in chars
    THEN RStrip(SubSeq(s, 1, Len(s) - 1), chars)
    ELSE s

\* str.strip(chars)
Strip(s, chars) == RStrip(LStrip(s, chars), chars)

\* str.startswith(prefix)
StartsWith(s, prefix) ==
    Len(s) >= Len(prefix) /\ SubSeq(s, 1, Len(prefix)) = prefix

\* str.replace(old, "", 1)
RECURSIVE RemoveFirst(_, _)
RemoveFirst(s, old) ==
    IF Len(s) < Len(old) THEN s
    ELSE IF StartsWith(s, old) THEN SubSeq(s, Len(old) + 1, Len(s))
    ELSE <<Head(s)>> \o RemoveFirst(Tail(s), old)

\* str.replace(old, "")
RECURSIVE RemoveAll(_, _)
RemoveAll(s, old) ==
    IF Len(s) < Len(old) THEN s
    ELSE IF StartsWith(s, old)
         THEN RemoveAll(SubSeq(s, Len(old) + 1, Len(s)), old)
    ELSE <<Head(s)>> \o RemoveAll(Tail(s), old)

clean_json_output(text) ==
    LET stripped == Strip(text, Whitespace)
        unfenced == IF StartsWith(stripped, Fence)
                    THEN Strip(RemoveFirst(Strip(stripped, {BT}), JsonTag),
                               Whitespace)
                    ELSE stripped
    IN  Strip(RemoveAll(unfenced, Fence), Whitespace)

(***************************************************************************)
(* Instants: datetime.now(IST), a wall-clock reading in Asia/Kolkata       *)
(***************************************************************************)
Instant(d, h, m, sec, us) ==
    [day |-> d, hour |-> h, minute |-> m, second |-> sec, micro |-> us]

\* a < b on instants of the same zone
Before(a, b) ==
    LET ka == <<a.day, a.hour, a.minute, a.second, a.micro>>
        kb == <<b.day, b.hour, b.minute, b.second, b.micro>>
    IN  \E i \in 1..5 : ka[i] < kb[i] /\ \A j \in 1..(i - 1) : ka[j] = kb[j]

NotBefore(a, b) == ~Before(a, b)

\* datetime.replace(hour=23, minute=59, second=0)
EndOfDay(now) == [now EXCEPT !.hour = 23, !.minute = 59, !.second = 0]

\* the default due date of create_task_in_notion
DefaultDue(now) == Iso(EndOfDay(now))

\* due_date as create_task_in_notion settles it
DueDate(task_data, now) ==
    LET due_date == Get(task_data, "due_date", None)
    IN  IF ~Truthy(due_date) THEN DefaultDue(now) ELSE due_date

(***************************************************************************)
(* create_task_in_notion: the page it posts                                *)
(***************************************************************************)
\* ', '.join(q): the pieces of the joined text
RECURSIVE JoinPieces(_)
JoinPieces(q) ==
    IF q = <<>> THEN <<>>
    ELSE IF Len(q) = 1 THEN <<q[1].s>>
    ELSE <<q[1].s, ", ">> \o JoinPieces(Tail(q))

\* what iterating a value yields: the items of a list, the characters of a
\* string, the keys of a dict in the order the dict keeps them
Items(v) ==
    CASE v.t = "list" -> v.q
      [] v.t = "str"  -> [i \in 1..Len(v.s) |-> Str(SubSeq(v.s, i, i))]
      [] v.t = "text" -> [i \in 1..Len(v.q) |-> Str(v.q[i])]
      [] v.t = "obj"  -> [i \in 1..Len(v.keys) |-> Str(v.keys[i])]

\* str.join raises TypeError unless given an iterable that yields strings
JoinRaises(v) ==
    \/ v.t \notin {"list", "str", "text", "obj"}
    \/ \E i \in 1..Len(Items(v)) : Items(v)[i].t # "str"

Text(q) == [t |-> "text", q |-> q]

\* the "properties" of the page; now1 is the clock at line 158, now2 at 162
PageProperties(task_data, now1, now2) ==
    ("Task" :> Get(task_data, "task_name", Str("Untitled Task")))
    @@ ("Result (R)" :> Get(task_data, "result", Str("")))
    @@ ("Purpose (P)" :> Get(task_data, "purpose", Str("")))
    @@ ("Massive Action Plan (M)" :>
            Text(JoinPieces(Items(Get(task_data, "massive_action_plan",
                                      List(<<>>))))))
    @@ ("PAEI Role" :> Get(task_data, "paei_role", Str("Producer")))
    @@ ("Status" :> Get(task_data, "status", Str("To Do")))
    @@ ("XP" :> Num(0))
    @@ ("Due Date" :> DueDate(task_data, now2))
    @@ ("Created At" :> Iso(now1))
    @@ ("Source" :> Get(task_data, "source", Str("Parent Agent")))
    @@ ("Context" :> Get(task_data, "context", Str("")))

\* building the page raises before anything is sent
PageRaises(task_data) ==
    JoinRaises(Get(task_data, "massive_action_plan", List(<<>>)))

\* the identifier the store gives its next page
NotionId(n) == [t |-> "id", n |-> n]
NewId(st) == NotionId(Cardinality(DOMAIN st) + 1)

\* what create_task_in_notion returns for the store's answer
CreateResult(status, id) ==
    IF status \in {200, 201}
    THEN [status |-> 200, id |-> id]
    ELSE [status |-> status, id |-> None]

(***************************************************************************)
(* update_notion_with_link: the patch it sends                             *)
(***************************************************************************)
\* a patch that also writes the status of the page
PatchPropertiesWithStatus(field, url) ==
    (field :> url) @@ ("Status" :> Str("In Progress"))

PatchProperties(field, url) == (field :> url)

\* the store applying a patch to a page
ApplyPatch(page, properties) ==
    [k \in (DOMAIN page) \cup (DOMAIN properties) |->
        IF k \in DOMAIN properties THEN properties[k] ELSE page[k]]

(***************************************************************************)
(* route_message: pure parts                                               *)
(***************************************************************************)
\* json.loads could not parse the text
ParseError == [t |-> "error"]

\* str.upper() on the spellings of intent the classifier uses
Upper(s) ==
    CASE s \in {"TASK", "task", "Task"} -> "TASK"
      [] s \in {"CALENDAR", "calendar"} -> "CALENDAR"
      [] s \in {"EMAIL", "Email"} -> "EMAIL"
      [] s \in {"COMPLETION", "completion"} -> "COMPLETION"
      [] s \in {"RESEARCH", "research"} -> "RESEARCH"
      [] s \in {"MESSAGE", "message"} -> "MESSAGE"
      [] s \in {"COMPLETE_TASK", "complete_task"} -> "COMPLETE_TASK"
      [] s \in {"UNKNOWN"} -> "UNKNOWN"
      [] s \in {"CHAT", "chat"} -> "CHAT"

\* line 249 raises AttributeError: intent_data is no dict, or intent no string
IntentRaises(data) ==
    \/ data.t # "obj"
    \/ Get(data.d, "intent", Str("UNKNOWN")).t # "str"

\* intent = intent_data.get("intent", "UNKNOWN").upper()
IntentOf(data) == Upper(Get(data.d, "intent", Str("UNKNOWN")).s)

\* a router that files MESSAGE under TASK
BranchMessageAsTask(intent) ==
    IF intent \in {"TASK", "COMPLETION", "CALENDAR", "EMAIL", "RESEARCH"}
    THEN intent
    ELSE IF intent = "MESSAGE" THEN "TASK" ELSE "UNKNOWN"

\* the branch route_message takes for an intent
Branch(intent) ==
    IF intent \in {"TASK", "COMPLETION", "CALENDAR", "EMAIL", "RESEARCH"}
    THEN intent
    ELSE "UNKNOWN"

Creates(branch) == branch \in {"TASK", "CALENDAR", "EMAIL"}

\* the address the EMAIL branch writes into the payload
FallbackRecipient == Str("narwadeaayush169@gmail.com")

\* task_info of the CALENDAR branch
CalendarTaskInfo(data, msg) ==
    ("task_name" :> Or(Or(Get(data, "event_name", None),
                          Get(data, "title", None)), msg))
    @@ ("result" :> Str("Calendar event scheduled"))
    @@ ("purpose" :> Str("Manage meetings and events"))
    @@ ("massive_action_plan" :>
            List(<<Str("Schedule meeting"), Str("Confirm details")>>))
    @@ ("paei_role" :> Str("Administrator"))
    @@ ("status" :> Str("To Do"))
    @@ ("context" :> Get(data, "context", msg))
    @@ ("source" :> Str("Parent Agent"))

\* task_info of the EMAIL branch
EmailTaskInfo(data) ==
    ("task_name" :> Str("Email Communication"))
    @@ ("result" :> Str("Email draft sent"))
    @@ ("purpose" :> Str("Handle communication tasks"))
    @@ ("massive_action_plan" :>
            List(<<Str("Draft email"), Str("Send message")>>))
    @@ ("paei_role" :> Str("Administrator"))
    @@ ("status" :> Str("To Do"))
    @@ ("context" :> Get(data, "context", Str("")))
    @@ ("source" :> Str("Parent Agent"))

\* what each branch hands to create_task_in_notion
TaskData(branch, data, msg) ==
    CASE branch = "TASK" -> data
      [] branch = "CALENDAR" -> CalendarTaskInfo(data, msg)
      [] branch = "EMAIL" -> EmailTaskInfo(data)

\* the child agent each branch forwards to
AgentOf(branch) ==
    CASE branch = "COMPLETION" -> "XP Agent"
      [] branch = "CALENDAR" -> "Calendar Agent"
      [] branch = "EMAIL" -> "Email Agent"
      [] branch = "RESEARCH" -> "Research Agent"

\* the payload each branch forwards
AgentPayload(branch, data, msg) ==
    CASE branch = "COMPLETION" -> data
      [] branch = "CALENDAR" -> ("message" :> msg)
      [] branch = "EMAIL" -> data
      [] branch = "RESEARCH" -> ("query" :> Or(Get(data, "query", None), msg))

\* a call_agent whose except clause returns the error text without a status
call_agentWithoutStatus(outcome) ==
    IF outcome.kind = "answer"
    THEN [code |-> outcome.code, body |-> outcome.body]
    ELSE [code |-> 0, body |-> [text |-> outcome.err, loads |-> ParseError]]

\* call_agent: (status, body) of an answer, (500, str(e)) of an exception
call_agent(outcome) ==
    IF outcome.kind = "answer"
    THEN [code |-> outcome.code, body |-> outcome.body]
    ELSE [code |-> 500, body |-> [text |-> outcome.err, loads |-> ParseError]]

\* the CALENDAR branch's link: None when there is none to patch, or the
\* extraction raised (caught at line 296)
CalendarLink(body) ==
    IF body.loads = ParseError \/ body.loads.t # "obj" THEN None
    ELSE Or(Get(body.loads.d, "html_link", None),
            Get(body.loads.d, "calendar_link", None))

\* the EMAIL branch's message id, "" when the extraction raised (line 330)
MessageId(body) ==
    IF body.loads = ParseError \/ body.loads.t # "obj" THEN Str("")
    ELSE LET brevo == Get(body.loads.d, "brevo_response", Obj(<<>>))
         IN  IF brevo.t # "obj" THEN Str("")
             ELSE Get(brevo.d, "messageId", Str(""))

\* f"https://app.brevo.com/email/{message_id}"
EmailUrl(message_id) ==
    [t |-> "fmt", base |-> "https://app.brevo.com/email/", arg |-> message_id]

\* the link a branch patches after the forward, None for no patch
LinkOf(branch, body) ==
    CASE branch = "CALENDAR" -> CalendarLink(body)
      [] branch = "EMAIL" ->
            IF Truthy(MessageId(body)) THEN EmailUrl(MessageId(body)) ELSE None
      [] OTHER -> None

LinkField(branch) ==
    IF branch = "CALENDAR" THEN "Calendar Link" ELSE "Email Link"

\* the patch is sent: if html_link and notion_id / if message_id and notion_id
Patches(branch, lnk, notion_id) ==
    branch \in {"CALENDAR", "EMAIL"} /\ Truthy(lnk) /\ Truthy(notion_id)

(***************************************************************************)
(* route_message: the responses                                            *)
(***************************************************************************)
Response(http, body) == [http |-> http, body |-> body]

\* the outer except of route_message
ErrorResponse(e) == Response(500, ("error" :> Str(e)))

MissingMessage == Response(400, ("error" :> Str("Missing 'message'")))

NoClient == Response(500, ("error" :> Str("Groq client not configured")))

UnparsedResponse(text) ==
    Response(200, ("intent" :> Str("UNKNOWN")) @@ ("raw" :> Str(text))
                  @@ ("error" :> Str("JSONDecodeError")))

UnknownResponse(data) ==
    Response(200, ("intent" :> Str("UNKNOWN")) @@ ("raw" :> data))

TaskResponse(n) ==
    Response(200, ("intent" :> Str("TASK"))
                  @@ ("status" :> Str("Task created in Notion"))
                  @@ ("notion_id" :> n.id)
                  @@ ("notion_status" :> Num(n.status)))

CompletionResponse(a) ==
    Response(200, ("intent" :> Str("COMPLETION"))
                  @@ ("status" :> Str("Forwarded to XP Agent"))
                  @@ ("xp_status" :> Num(a.code))
                  @@ ("xp_resp" :> Str(a.body.text)))

CalendarResponse(n, a) ==
    Response(200, ("intent" :> Str("CALENDAR"))
                  @@ ("status" :> Str("Forwarded to Calendar Agent"))
                  @@ ("notion_id" :> n.id)
                  @@ ("notion_status" :> Num(n.status))
                  @@ ("cal_status" :> Num(a.code))
                  @@ ("cal_resp" :> Str(a.body.text)))

EmailResponse(n, a) ==
    Response(200, ("intent" :> Str("EMAIL"))
                  @@ ("status" :> Str("Forwarded to Email Agent"))
                  @@ ("notion_id" :> n.id)
                  @@ ("notion_status" :> Num(n.status))
                  @@ ("email_status" :> Num(a.code))
                  @@ ("email_resp" :> Str(a.body.text)))

ResearchResponse(a) ==
    Response(200, ("intent" :> Str("RESEARCH"))
                  @@ ("status" :> Str("Forwarded to Research Agent"))
                  @@ ("research_status" :> Num(a.code))
                  @@ ("research_resp" :>
                        IF a.body.loads = ParseError
                        THEN Obj(<< <<"raw_response", Str(a.body.text)>> >>)
                        ELSE a.body.loads))

\* the response of a branch once its calls are over
FinalResponse(branch, n, a) ==
    CASE branch = "TASK" -> TaskResponse(n)
      [] branch = "COMPLETION" -> CompletionResponse(a)
      [] branch = "CALENDAR" -> CalendarResponse(n, a)
      [] branch = "EMAIL" -> EmailResponse(n, a)
      [] branch = "RESEARCH" -> ResearchResponse(a)

(***************************************************************************)
(* What the collaborators can send                                         *)
(***************************************************************************)
UserMessage == Text(<<"h", "i">>)

\* bodies of POST /route; ParseError is a body get_json cannot parse
RequestBodies ==
    { ParseError,
      List(<<>>),
      None,
      Num(7),
      Str("hi"),
      Obj(<<>>),
      Obj(<< <<"message", Num(5)>> >>),
      Obj(<< <<"message", None>> >>),
      Obj(<< <<"message", Text(<<" ">>)>> >>),
      Obj(<< <<"message", Text(<<TAB, CR, NL, FF, VT>>)>> >>),
      Obj(<< <<"message", Text(<<TAB, "h", "i", CR, NL>>)>> >>),
      Obj(<< <<"message", Text(<<" ", "h", "i", NL>>)>> >>) }

\* the TASK object of the system prompt
TaskObject ==
    ("intent" :> Str("TASK"))
    @@ ("task_name" :> Str("Call Aayush"))
    @@ ("result" :> Str("Reminder to call Aayush"))
    @@ ("purpose" :> Str("Stay connected with team member"))
    @@ ("massive_action_plan" :> List(<<Str("Set reminder"), Str("Make call")>>))
    @@ ("paei_role" :> Str("Integrator"))
    @@ ("due_date" :> Str("2025-11-12T21:00:00+05:30"))
    @@ ("status" :> Str("To Do"))
    @@ ("context" :> Str("Remind me to call Aayush at 9pm"))
    @@ ("source" :> Str("Parent Agent"))

Without(d, key) == [k \in (DOMAIN d) \ {key} |-> d[k]]

TaskObjects ==
    { TaskObject,
      Without(TaskObject, "due_date"),
      Put(TaskObject, "due_date", None),
      Put(TaskObject, "due_date", Str("")),
      Without(Without(TaskObject, "due_date"), "context"),
      Put(TaskObject, "massive_action_plan", None),
      Put(TaskObject, "massive_action_plan", Num(3)),
      Put(TaskObject, "massive_action_plan", List(<<Str("Dial"), Num(2)>>)),
      Put(TaskObject, "massive_action_plan", Str("abc")),
      Put(TaskObject, "massive_action_plan", Str("")),
      Put(TaskObject, "massive_action_plan", Obj(<< <<"k", Num(1)>> >>)),
      Put(TaskObject, "massive_action_plan",
          Obj(<< <<"b", Num(1)>>, <<"a", Num(2)>> >>)),
      Put(TaskObject, "massive_action_plan",
          Obj(<< <<"a", Num(2)>>, <<"b", Num(1)>> >>)),
      Put(TaskObject, "massive_action_plan", Obj(<<>>)),
      Put(Without(TaskObject, "due_date"), "intent", Str("task")),
      ("intent" :> Str("Task")) }

CalendarObject ==
    ("intent" :> Str("CALENDAR"))
    @@ ("event_name" :> Str("Team Design Discussion"))
    @@ ("start_time" :> Str("2025-11-12T16:00:00+05:30"))
    @@ ("end_time" :> Str("2025-11-12T17:00:00+05:30"))
    @@ ("context" :> Str("Schedule a meeting with team"))

CalendarObjects ==
    { CalendarObject,
      Without(CalendarObject, "context"),
      Put(Without(CalendarObject, "event_name"), "title", Str("Design sync")),
      ("intent" :> Str("calendar")) }

EmailObject ==
    ("intent" :> Str("EMAIL"))
    @@ ("to" :> Str("team@example.com"))
    @@ ("subject" :> Str("Design review"))
    @@ ("context" :> Str("Email the team about the review"))

EmailObjects ==
    { EmailObject,
      Without(EmailObject, "to"),
      Without(EmailObject, "context"),
      ("intent" :> Str("Email")) }

OtherObjects ==
    { EmptyDict,
      ("intent" :> None),
      ("intent" :> Num(5)),
      ("intent" :> Str("CHAT")),
      ("intent" :> Str("UNKNOWN")),
      ("intent" :> Str("MESSAGE")) @@ ("priority" :> Str("high"))
          @@ ("text" :> Str("Standup moved")),
      ("intent" :> Str("message")),
      ("intent" :> Str("COMPLETE_TASK")) @@ ("task_name" :> Str("Call Aayush")),
      ("intent" :> Str("complete_task")) @@ ("task_name" :> Str("Water plants")),
      ("intent" :> Str("COMPLETION")) @@ ("message" :> Str("I have called Aayush"))
          @@ ("context" :> Str("related to the task 'Call Aayush'")),
      ("intent" :> Str("completion")) @@ ("message" :> Str("I watered the plants")),
      ("intent" :> Str("RESEARCH")) @@ ("query" :> Str("generative AI in finance")),
      ("intent" :> Str("research")) }

ClassifierObjects ==
    TaskObjects \cup CalendarObjects \cup EmailObjects \cup OtherObjects

\* the keys of the classifier's objects, in the order the prompt shows them
PromptOrder ==
    <<"intent", "task_name", "event_name", "title", "to", "subject", "query",
      "message", "text", "priority", "result", "purpose",
      "massive_action_plan", "paei_role", "due_date", "start_time",
      "end_time", "status", "context", "source">>

\* the members of d, its keys taken in the given order
RECURSIVE InOrder(_, _)
InOrder(order, d) ==
    IF order = <<>> THEN <<>>
    ELSE IF Head(order) \in DOMAIN d
         THEN <<<<Head(order), d[Head(order)]>>>> \o InOrder(Tail(order), d)
         ELSE InOrder(Tail(order), d)

\* a classifier reply: its text, and what json.loads makes of the cleaned text
ClassifierReplies ==
    { [text |-> "I cannot help with that", loads |-> ParseError],
      [text |-> "[]", loads |-> List(<<>>)],
      [text |-> "null", loads |-> None],
      [text |-> "7", loads |-> Num(7)] }
    \cup { [text |-> "object", loads |-> Obj(InOrder(PromptOrder, d))] : d \in ClassifierObjects }

\* the store's answer to POST /v1/pages
CreateOutcomes ==
    { [kind |-> "answer", status |-> 200],
      [kind |-> "answer", status |-> 201],
      [kind |-> "answer", status |-> 400],
      [kind |-> "answer", status |-> 502],
      [kind |-> "raise", status |-> 0] }

\* readings of the clock at lines 158 and 162 of one call
Morning == Instant(0, 10, 0, 0, 0)
LastMinute == Instant(0, 23, 59, 0, 0)
LastSeconds == Instant(0, 23, 59, 30, 250000)
Midnight == Instant(1, 0, 0, 0, 0)

\* instants at which a request is invoked
Arrivals == { Morning, LastMinute, LastSeconds }

ClockReads ==
    { <<Morning, Morning>>,
      <<Morning, Instant(0, 10, 0, 0, 40)>>,
      <<LastMinute, LastMinute>>,
      <<LastSeconds, LastSeconds>>,
      <<LastSeconds, Midnight>> }

\* bodies a child agent answers with
AgentBodies ==
    { [text |-> "Service Unavailable", loads |-> ParseError],
      [text |-> "[]", loads |-> List(<<>>)],
      [text |-> "{}", loads |-> Obj(<<>>)],
      [text |-> "html_link", loads |->
          Obj(<< <<"html_link", Str("https://calendar.example/e1")>> >>)],
      [text |-> "calendar_link", loads |->
          Obj(<< <<"html_link", Str("")>>,
                 <<"calendar_link", Str("https://calendar.example/e2")>> >>)],
      [text |-> "brevo null", loads |-> Obj(<< <<"brevo_response", None>> >>)],
      [text |-> "brevo empty", loads |->
          Obj(<< <<"brevo_response", Obj(<<>>)>> >>)],
      [text |-> "brevo id", loads |->
          Obj(<< <<"brevo_response", Obj(<< <<"messageId", Str("m-1")>> >>)>> >>)] }

\* what happens to requests.post in call_agent
AgentOutcomes ==
    { [kind |-> "answer", code |-> 200, body |-> b, err |-> ""] : b \in AgentBodies }
    \cup { [kind |-> "answer", code |-> 503, body |-> b, err |-> ""] :
             b \in { x \in AgentBodies : x.loads = ParseError } }
    \cup { [kind |-> "raise", code |-> 0,
            body |-> [text |-> "", loads |-> ParseError], err |-> "Read timed out"] }

\* the store's answer to PATCH /v1/pages/{id}
PatchOutcomes ==
    { [kind |-> "answer", status |-> 200],
      [kind |-> "answer", status |-> 404],
      [kind |-> "raise", status |-> 0] }

\* pages the store may hold before the request
StoredPage == PageProperties(TaskObject, Morning, Morning)

InitialStores == { [k \in {} |-> StoredPage], (NotionId(1) :> StoredPage) }

(***************************************************************************)
(* State machine                                                           *)
(***************************************************************************)
NoNotion == [status |-> 0, id |-> None]
NoAgent == [code |-> 0, body |-> [text |-> "", loads |-> ParseError]]
NoResponse == Response(0, EmptyDict)

InitRoute ==
    /\ pc = [r \in AllReqs |-> "idle"]
    /\ arrived = [r \in AllReqs |-> Morning]
    /\ message = [r \in AllReqs |-> Text(<<>>)]
    /\ raw = [r \in AllReqs |-> ""]
    /\ intent_data = [r \in AllReqs |-> None]
    /\ notion = [r \in AllReqs |-> NoNotion]
    /\ agent = [r \in AllReqs |-> NoAgent]
    /\ link = [r \in AllReqs |-> None]
    /\ calls = [r \in AllReqs |-> <<>>]
    /\ resp = [r \in AllReqs |-> NoResponse]

\* the request returns: its response is set and it takes no further step
Return(r, response) ==
    /\ pc' = [pc EXCEPT ![r] = "done"]
    /\ resp' = [resp EXCEPT ![r] = response]

BranchOf(r) == Branch(IntentOf(intent_data[r]))

\* lines 222-228: the body is read and the message checked
Receive(r, body, at) ==
    /\ pc[r] = "idle"
    /\ arrived' = [arrived EXCEPT ![r] = at]
    /\ IF body = ParseError
       THEN Return(r, ErrorResponse("BadRequest")) /\ UNCHANGED message
       ELSE IF body.t # "obj"
       THEN Return(r, ErrorResponse("AttributeError")) /\ UNCHANGED message
       ELSE LET m == Get(body.d, "message", Text(<<>>))
            IN  IF m.t # "text"
                THEN Return(r, ErrorResponse("AttributeError"))
                     /\ UNCHANGED message
                ELSE IF Strip(m.q, Whitespace) = <<>>
                THEN Return(r, MissingMessage) /\ UNCHANGED message
                ELSE IF ~client
                THEN Return(r, NoClient) /\ UNCHANGED message
                ELSE /\ pc' = [pc EXCEPT ![r] = "classify"]
                     /\ message' = [message EXCEPT
                                       ![r] = Text(Strip(m.q, Whitespace))]
                     /\ UNCHANGED resp
    /\ UNCHANGED <<client, raw, intent_data, notion, agent, link, calls,
                   store, sanIn, sanOut>>

\* lines 230-238: the classifier call raises
ClassifierRaises(r) ==
    /\ pc[r] = "classify"
    /\ Return(r, ErrorResponse("APIConnectionError"))
    /\ UNCHANGED <<client, arrived, message, raw, intent_data, notion, agent,
                   link, calls, store, sanIn, sanOut>>

\* lines 240-252, 262, 272, 309, 343, 360: the reply is parsed and routed
ClassifierReturns(r, reply) ==
    /\ pc[r] = "classify"
    /\ raw' = [raw EXCEPT ![r] = reply.text]
    /\ IF reply.loads = ParseError
       THEN Return(r, UnparsedResponse(reply.text)) /\ UNCHANGED intent_data
       ELSE /\ intent_data' = [intent_data EXCEPT ![r] = reply.loads]
            /\ IF IntentRaises(reply.loads)
               THEN Return(r, ErrorResponse("AttributeError"))
               ELSE LET branch == Branch(IntentOf(reply.loads))
                    IN  IF branch = "UNKNOWN"
                        THEN Return(r, UnknownResponse(reply.loads))
                        ELSE /\ pc' = [pc EXCEPT ![r] =
                                    IF Creates(branch) THEN "create"
                                    ELSE "forward"]
                             /\ UNCHANGED resp
    /\ UNCHANGED <<client, arrived, message, notion, agent, link, calls,
                   store, sanIn, sanOut>>

\* create_task_in_notion, and what the branch does with its result up to
\* the next call: lines 253-259, 286-288, 320-321
StoreCreate(r, outcome, clock) ==
    /\ pc[r] = "create"
    /\ NotBefore(clock[1], arrived[r])
    /\ LET branch == BranchOf(r)
           task_data == TaskData(branch, intent_data[r].d, message[r])
           page == PageProperties(task_data, clock[1], clock[2])
           created == outcome.kind = "answer" /\ outcome.status \in {200, 201}
           result == CreateResult(outcome.status,
                                  IF created THEN NewId(store) ELSE None)
       IN  IF PageRaises(task_data)
           THEN /\ Return(r, ErrorResponse("TypeError"))
                /\ UNCHANGED <<calls, store, notion, intent_data>>
           ELSE /\ calls' = [calls EXCEPT ![r] =
                        Append(@, [op |-> "create", page |-> page])]
                /\ store' = IF created
                            THEN store @@ (NewId(store) :> page)
                            ELSE store
                /\ IF outcome.kind = "raise"
                   THEN /\ Return(r, ErrorResponse("ConnectionError"))
                        /\ UNCHANGED <<notion, intent_data>>
                   ELSE /\ notion' = [notion EXCEPT ![r] = result]
                        /\ IF branch = "TASK"
                           THEN /\ Return(r, FinalResponse(branch, result,
                                                           agent[r]))
                                /\ UNCHANGED intent_data
                           ELSE /\ pc' = [pc EXCEPT ![r] = "forward"]
                                /\ intent_data' = [intent_data EXCEPT ![r] =
                                      IF branch = "EMAIL"
                                      THEN SetItem(@, "to", FallbackRecipient)
                                      ELSE @]
                                /\ UNCHANGED resp
    /\ UNCHANGED <<client, arrived, message, raw, agent, link, sanIn, sanOut>>

\* call_agent, and what the branch does with its result up to the next
\* call: lines 263-269, 289-294, 323-328, 346-357
AgentAnswers(r, outcome) ==
    /\ pc[r] = "forward"
    /\ LET branch == BranchOf(r)
           answer == call_agent(outcome)
           lnk == LinkOf(branch, answer.body)
       IN  /\ calls' = [calls EXCEPT ![r] =
                  Append(@, [op |-> "forward", to |-> AgentOf(branch),
                             payload |-> AgentPayload(branch, intent_data[r].d,
                                                      message[r])])]
           /\ agent' = [agent EXCEPT ![r] = answer]
           /\ IF Patches(branch, lnk, notion[r].id)
              THEN /\ pc' = [pc EXCEPT ![r] = "patch"]
                   /\ link' = [link EXCEPT ![r] = lnk]
                   /\ UNCHANGED resp
              ELSE /\ Return(r, FinalResponse(branch, notion[r], answer))
                   /\ UNCHANGED link
    /\ UNCHANGED <<client, arrived, message, raw, intent_data, notion, store,
                   sanIn, sanOut>>

\* a patch whose exception escapes the branch's try and reaches the outer
\* except
StorePatchPropagating(r, outcome) ==
    /\ pc[r] = "patch"
    /\ LET branch == BranchOf(r)
           properties == PatchProperties(LinkField(branch), link[r])
           id == notion[r].id
       IN  /\ calls' = [calls EXCEPT ![r] =
                  Append(@, [op |-> "patch", id |-> id,
                             properties |-> properties])]
           /\ store' = IF outcome.kind = "answer" /\ outcome.status = 200
                          /\ id \in DOMAIN store
                       THEN [store EXCEPT ![id] = ApplyPatch(@, properties)]
                       ELSE store
           /\ IF outcome.kind = "raise"
              THEN Return(r, ErrorResponse("ConnectionError"))
              ELSE Return(r, FinalResponse(branch, notion[r], agent[r]))
    /\ UNCHANGED <<client, arrived, message, raw, intent_data, notion, agent,
                   link, sanIn, sanOut>>

\* a patch that takes the identifier from a place all requests share: the
\* record created last, by whichever request
StorePatchLatestId(r, outcome) ==
    /\ pc[r] = "patch"
    /\ LET branch == BranchOf(r)
           properties == PatchProperties(LinkField(branch), link[r])
           id == NotionId(Cardinality(DOMAIN store))
       IN  /\ calls' = [calls EXCEPT ![r] =
                  Append(@, [op |-> "patch", id |-> id,
                             properties |-> properties])]
           /\ store' = IF outcome.kind = "answer" /\ outcome.status = 200
                          /\ id \in DOMAIN store
                       THEN [store EXCEPT ![id] = ApplyPatch(@, properties)]
                       ELSE store
           /\ Return(r, FinalResponse(branch, notion[r], agent[r]))
    /\ UNCHANGED <<client, arrived, message, raw, intent_data, notion, agent,
                   link, sanIn, sanOut>>

\* update_notion_with_link, then the branch's return: lines 295-306, 329-340
StorePatch(r, outcome) ==
    /\ pc[r] = "patch"
    /\ LET branch == BranchOf(r)
           properties == PatchProperties(LinkField(branch), link[r])
           id == notion[r].id
       IN  /\ calls' = [calls EXCEPT ![r] =
                  Append(@, [op |-> "patch", id |-> id,
                             properties |-> properties])]
           /\ store' = IF outcome.kind = "answer" /\ outcome.status = 200
                          /\ id \in DOMAIN store
                       THEN [store EXCEPT ![id] = ApplyPatch(@, properties)]
                       ELSE store
           /\ Return(r, FinalResponse(branch, notion[r], agent[r]))
    /\ UNCHANGED <<client, arrived, message, raw, intent_data, notion, agent,
                   link, sanIn, sanOut>>

\* one request, whatever its collaborators answer
Serve(r) ==
    \/ \E body \in RequestBodies, at \in Arrivals : Receive(r, body, at)
    \/ ClassifierRaises(r)
    \/ \E reply \in ClassifierReplies : ClassifierReturns(r, reply)
    \/ \E outcome \in CreateOutcomes, clock \in ClockReads :
          StoreCreate(r, outcome, clock)
    \/ \E outcome \in AgentOutcomes : AgentAnswers(r, outcome)
    \/ \E outcome \in PatchOutcomes : StorePatch(r, outcome)

NoText == [json |-> <<>>, fence |-> "none"]
NoOutput == [done |-> FALSE, text |-> <<>>]

Init ==
    /\ InitRoute
    /\ client \in BOOLEAN
    /\ store \in InitialStores
    /\ sanIn = NoText
    /\ sanOut = NoOutput

\* route_message keeps nothing between requests: one request is served
Next == Serve(1)

Spec == Init /\ [][Next]_vars

(***************************************************************************)
(* Concurrent requests: one execution of route_message per request, all    *)
(* against the same store                                                  *)
(***************************************************************************)
ConcurrentBodies == { Obj(<< <<"message", Text(<<" ", "h", "i", NL>>)>> >>) }

ConcurrentReplies ==
    { [text |-> "object", loads |-> Obj(InOrder(PromptOrder, d))] :
        d \in { TaskObject, CalendarObject, EmailObject } }

ConcurrentCreates ==
    { o \in CreateOutcomes : o.kind = "answer" /\ o.status \in {200, 400} }

ConcurrentAnswers ==
    { o \in AgentOutcomes :
        \/ o.kind = "raise"
        \/ o.code = 200 /\ o.body.text \in {"html_link", "brevo id"} }

ConcurrentPatches == { o \in PatchOutcomes : o.kind = "answer" }

ServeConcurrently(r) ==
    \/ \E body \in ConcurrentBodies : Receive(r, body, Morning)
    \/ \E reply \in ConcurrentReplies : ClassifierReturns(r, reply)
    \/ \E outcome \in ConcurrentCreates :
          StoreCreate(r, outcome, <<Morning, Morning>>)
    \/ \E outcome \in ConcurrentAnswers : AgentAnswers(r, outcome)
    \/ \E outcome \in ConcurrentPatches : StorePatch(r, outcome)

InitConc ==
    /\ InitRoute
    /\ client = TRUE
    /\ store = [k \in {} |-> StoredPage]
    /\ sanIn = NoText
    /\ sanOut = NoOutput

NextConc == \E r \in AllReqs : ServeConcurrently(r)

SpecConc == InitConc /\ [][NextConc]_vars

(***************************************************************************)
(* clean_json_output on its own                                            *)
(***************************************************************************)
Quote == "\""

\* pieces a classifier may put inside a JSON string
Tokens == { <<"x">>, JsonTag, <<BT>>, Fence, <<" ">> }

RECURSIVE TokenTexts(_)
TokenTexts(n) ==
    IF n = 0 THEN { <<>> }
    ELSE TokenTexts(n - 1)
         \cup { a \o b : a \in TokenTexts(n - 1), b \in Tokens }

\* the JSON texts {"a":"..."}
JsonTexts ==
    { <<"{", Quote, "a", Quote, ":", Quote>> \o inner \o <<Quote, "}">> :
        inner \in TokenTexts(MaxTokens) }

Fences == { "none", "plain", "json", "crlf" }

\* a JSON text as the classifier sends it: bare, or inside a code fence
Wrap(json, fence) ==
    CASE fence = "none" -> json
      [] fence = "plain" -> Fence \o <<NL>> \o json \o <<NL>> \o Fence
      [] fence = "json" -> Fence \o JsonTag \o <<NL>> \o json \o <<NL>> \o Fence
      [] fence = "crlf" ->
            <<TAB>> \o Fence \o JsonTag \o <<CR, NL>> \o json \o <<CR, NL>>
            \o Fence \o <<FF, VT, NBSP>>

Sanitize ==
    /\ ~sanOut.done
    /\ sanOut' = [done |-> TRUE,
                  text |-> clean_json_output(Wrap(sanIn.json, sanIn.fence))]
    /\ UNCHANGED <<sanIn, routeVars>>

InitSan ==
    /\ InitRoute
    /\ client = TRUE
    /\ store = [k \in {} |-> StoredPage]
    /\ sanIn \in [json : JsonTexts, fence : Fences]
    /\ sanOut = NoOutput

NextSan == Sanitize

SpecSan == InitSan /\ [][NextSan]_vars

(***************************************************************************)
(* Properties                                                              *)
(***************************************************************************)
Done(r) == pc[r] = "done"

\* the places in calls[r] of the calls of a kind
CallsOf(r, op) == { i \in DOMAIN calls[r] : calls[r][i].op = op }

\* the classifier's reply was parsed to a dict with a usable intent
Classified(r) == intent_data[r].t = "obj" /\ ~IntentRaises(intent_data[r])

\* request r issued its create call and got no record identifier
CreateFailed(r) == CallsOf(r, "create") # {} /\ notion[r].id = None

\* the store answered r's create call with a status other than 200/201
CreateRejected(r) ==
    CallsOf(r, "create") # {} /\ notion[r].status \notin {0, 200}

\* C1: in a CALENDAR or EMAIL request whose create call failed, no forward
\* call to the calendar or email handler is issued.
C1_NoForwardAfterFailedCreate ==
    \A r \in AllReqs :
        (Classified(r) /\ BranchOf(r) \in {"CALENDAR", "EMAIL"}
            /\ CreateFailed(r))
        => CallsOf(r, "forward") = {}

\* C2: when the store rejects the create call of a TASK, CALENDAR or EMAIL
\* request, the response is an error and does not report the action as done.
C2_RejectedCreateSurfaced ==
    \A r \in AllReqs :
        (Done(r) /\ CreateRejected(r))
        => /\ "error" \in DOMAIN resp[r].body
           /\ "status" \notin DOMAIN resp[r].body

\* the tags that select a persisting or completing action
ActingTags == {"TASK", "CALENDAR", "EMAIL", "COMPLETE_TASK", "COMPLETION"}

\* r is classified RESEARCH or MESSAGE, or UNKNOWN: any other tag or none
NonPersistingIntent(r) ==
    Classified(r) /\ IntentOf(intent_data[r]) \notin ActingTags

\* C3: a request classified RESEARCH, MESSAGE or UNKNOWN (an unrecognized or
\* missing intent included) never issues a create call against the store.
C3_NoCreateForNonPersistingIntents ==
    \A r \in AllReqs :
        NonPersistingIntent(r) => CallsOf(r, "create") = {}

\* C3 witness: a RESEARCH request has been forwarded and answered.
C3_Witness ==
    \E r \in AllReqs :
        /\ Done(r) /\ NonPersistingIntent(r)
        /\ IntentOf(intent_data[r]) = "RESEARCH"
        /\ CallsOf(r, "forward") # {}
        /\ resp[r].http = 200

\* a completion request, under the spec's tag or the code's
CompletionRequest(r) ==
    Classified(r) /\ IntentOf(intent_data[r]) \in {"COMPLETE_TASK", "COMPLETION"}

\* C4: a completion request that matches no stored record (the store holds
\* none) answers Not_Found and calls no experience handler.
C4_CompletionMissIsNotFound ==
    \A r \in AllReqs :
        (Done(r) /\ CompletionRequest(r) /\ DOMAIN store = {})
        => /\ Get(resp[r].body, "intent", None) = Str("Not_Found")
           /\ CallsOf(r, "forward") = {}

\* C5: a classifier text that does not parse to a JSON object gives a 200
\* response with intent UNKNOWN and the raw text, and no call is issued.
C5_UnparseableIsUnknown ==
    \A r \in AllReqs :
        (Done(r) /\ raw[r] # "" /\ intent_data[r].t # "obj")
        => /\ resp[r].http = 200
           /\ Get(resp[r].body, "intent", None) = Str("UNKNOWN")
           /\ Get(resp[r].body, "raw", None) = Str(raw[r])
           /\ calls[r] = <<>>

\* C6: when the classifier call fails, the request answers with intent
\* UNKNOWN and issues no store or handler call.
C6_ClassifierFailureIsUnknown ==
    [][\A r \in AllReqs :
          ClassifierRaises(r)
          => /\ Get(resp'[r].body, "intent", None) = Str("UNKNOWN")
             /\ calls'[r] = <<>>]_vars

\* the intent is missing, null, no string or no tag the router knows
UnrecognizedIntent(data) ==
    LET v == Get(data.d, "intent", None)
    IN  \/ v.t # "str"
        \/ Upper(v.s) \notin {"TASK", "COMPLETION", "COMPLETE_TASK", "CALENDAR",
                              "EMAIL", "RESEARCH", "MESSAGE"}

\* C7: for every parsed classifier object with a missing, null, non-string
\* or unrecognized intent the response is the UNKNOWN outcome, with the raw
\* classifier output and no side effects, never an error response.
C7_IntentSelectionTotal ==
    \A r \in AllReqs :
        (Done(r) /\ intent_data[r].t = "obj"
            /\ UnrecognizedIntent(intent_data[r]))
        => /\ resp[r] = UnknownResponse(intent_data[r])
           /\ calls[r] = <<>>

\* a TASK request whose classification carries no due date, once its record
\* is created
TaskWithoutDue(r) ==
    /\ Classified(r)
    /\ BranchOf(r) = "TASK"
    /\ Get(intent_data[r].d, "due_date", None) = None
    /\ CallsOf(r, "create") # {}
    /\ notion[r].id # None

\* the page request r posted to the store
PageOf(r) == calls[r][1].page

\* C8: for a TASK classification with no due date the due instant written to
\* the store is not null and not before the request's invocation time.
C8_DefaultDueNotBeforeInvocation ==
    \A r \in AllReqs :
        TaskWithoutDue(r)
        => /\ PageOf(r)["Due Date"].t = "iso"
           /\ NotBefore(PageOf(r)["Due Date"].at, arrived[r])

\* C9: for a TASK classification with due_date omitted the due
\* instant of the created record equals the invocation time exactly.
C9_DefaultDueIsInvocationTime ==
    \A r \in AllReqs :
        (TaskWithoutDue(r) /\ "due_date" \notin DOMAIN intent_data[r].d)
        => PageOf(r)["Due Date"] = Iso(arrived[r])

\* C10: sanitizing a JSON text wrapped in a code fence gives what sanitizing
\* the bare text gives, and the JSON text itself comes out unaltered.
C10_FenceInvisible ==
    sanOut.done
    => /\ sanOut.text = clean_json_output(sanIn.json)
       /\ sanOut.text = sanIn.json

\* a CALENDAR or EMAIL request whose record was created
LinkedRequest(r) ==
    /\ Classified(r)
    /\ BranchOf(r) \in {"CALENDAR", "EMAIL"}
    /\ CallsOf(r, "create") # {}
    /\ notion[r].id # None

\* C11: in a CALENDAR or EMAIL request whose record was created, the HTTP
\* status, intent, record identifier and create status reported to the caller
\* are those settled at creation, whatever the handler answered and whatever
\* became of the patch.
C11_EnrichmentNeverDowngrades ==
    \A r \in AllReqs :
        (Done(r) /\ LinkedRequest(r))
        => /\ resp[r].http = 200
           /\ Get(resp[r].body, "intent", None) = Str(BranchOf(r))
           /\ Get(resp[r].body, "notion_id", None) = notion[r].id
           /\ Get(resp[r].body, "notion_status", None) = Num(200)

\* C11 witness: a request answered after a patch that the store did not
\* apply (rejected, or the call raised).
C11_Witness ==
    \E r \in AllReqs :
        /\ Done(r) /\ LinkedRequest(r)
        /\ CallsOf(r, "patch") # {}
        /\ LinkField(BranchOf(r)) \notin DOMAIN store[notion[r].id]

\* the error texts of the exceptions requests.post raises in call_agent
ForwardErrors == { o.err : o \in { x \in AgentOutcomes : x.kind = "raise" } }

\* request r forwarded to a handler and the call raised
ForwardFailed(r) ==
    CallsOf(r, "forward") # {} /\ agent[r].body.text \in ForwardErrors

\* the keys under which each branch reports the handler's status and body
StatusKey(branch) ==
    CASE branch = "COMPLETION" -> "xp_status"
      [] branch = "CALENDAR" -> "cal_status"
      [] branch = "EMAIL" -> "email_status"
      [] branch = "RESEARCH" -> "research_status"

BodyKey(branch) ==
    CASE branch = "COMPLETION" -> "xp_resp"
      [] branch = "CALENDAR" -> "cal_resp"
      [] branch = "EMAIL" -> "email_resp"
      [] branch = "RESEARCH" -> "research_resp"

\* C12: when the call to a handler raises, the forwarder returns status 500
\* with the error text, the call is not repeated, and the request ends with
\* a normal response carrying that status and text (the RESEARCH branch
\* carries the text as raw_response).
C12_ForwardNeverRaises ==
    \A r \in AllReqs :
        ForwardFailed(r)
        => /\ agent[r].code = 500
           /\ Cardinality(CallsOf(r, "forward")) = 1
           /\ Done(r)
           /\ resp[r].http = 200
           /\ resp[r].body[StatusKey(BranchOf(r))] = Num(500)
           /\ resp[r].body[BodyKey(BranchOf(r))] =
                 IF BranchOf(r) = "RESEARCH"
                 THEN Obj(<< <<"raw_response", Str(agent[r].body.text)>> >>)
                 ELSE Str(agent[r].body.text)

\* C12 witness: a RESEARCH request whose forward raised has been answered.
C12_Witness ==
    \E r \in AllReqs :
        /\ ForwardFailed(r)
        /\ BranchOf(r) = "RESEARCH"
        /\ Done(r)

\* the forwards of request r to one handler
ForwardsTo(r, handler) ==
    { i \in CallsOf(r, "forward") : calls[r][i].to = handler }

\* C13: in a TASK request whose record is created and whose classification
\* carries a due date, the calendar handler is called after the create.
C13_TaskForwardsToCalendar ==
    \A r \in AllReqs :
        (Done(r) /\ Classified(r) /\ BranchOf(r) = "TASK"
            /\ CallsOf(r, "create") # {} /\ notion[r].id # None
            /\ Truthy(Get(intent_data[r].d, "due_date", None)))
        => \E i \in ForwardsTo(r, "Calendar Agent") :
               \E j \in CallsOf(r, "create") : j < i

\* the stored records whose title is the task the completion request names
MatchingRecords(r) ==
    { id \in DOMAIN store :
        store[id]["Task"] = Get(intent_data[r].d, "task_name", None) }

\* C14: in a completion request that matches a stored record, the record's
\* status is Completed and the experience handler has been called; and the
\* experience handler is never called without a lookup before it.
C14_CompletionMarksThenAwards ==
    \A r \in AllReqs :
        /\ (Done(r) /\ CompletionRequest(r) /\ MatchingRecords(r) # {})
           => /\ \E id \in MatchingRecords(r) :
                     store[id]["Status"] = Str("Completed")
              /\ ForwardsTo(r, "XP Agent") # {}
        /\ \A i \in ForwardsTo(r, "XP Agent") :
               \E j \in CallsOf(r, "query") : j < i

\* C15: a request classified MESSAGE forwards exactly once to the messaging
\* handler and issues no store call.
C15_MessageForwardedOnce ==
    \A r \in AllReqs :
        (Done(r) /\ Classified(r) /\ IntentOf(intent_data[r]) = "MESSAGE")
        => /\ Cardinality(ForwardsTo(r, "Messaging Agent")) = 1
           /\ CallsOf(r, "create") = {}
           /\ CallsOf(r, "patch") = {}

\* C16: in an EMAIL request, when the branch passes from the create to the
\* forward, the payload it is about to send carries the classifier's
\* recipient if it gave one, and the fallback address only otherwise.
C16_RecipientKept ==
    [][\A r \in AllReqs :
          (pc[r] = "create" /\ pc'[r] = "forward" /\ BranchOf(r) = "EMAIL")
          => AgentPayload("EMAIL", intent_data'[r].d, message'[r])["to"] =
                 IF "to" \in DOMAIN intent_data[r].d
                 THEN intent_data[r].d["to"]
                 ELSE FallbackRecipient]_vars

\* C17: for a TASK, CALENDAR or EMAIL request whose classification has no
\* context, the created record's context is the user's message and its
\* source the agent tag.
C17_ContextDefaultsToMessage ==
    \A r \in AllReqs :
        (Classified(r) /\ Creates(BranchOf(r))
            /\ CallsOf(r, "create") # {} /\ notion[r].id # None
            /\ "context" \notin DOMAIN intent_data[r].d)
        => /\ PageOf(r)["Context"] = message[r]
           /\ PageOf(r)["Source"] = Str("Parent Agent")

\* C18: a request issues at most one create call, exactly one once a TASK,
\* CALENDAR or EMAIL request has ended, and the record it created is never
\* deleted from the store.
C18_OneCreateNoRollback ==
    \A r \in AllReqs :
        /\ Cardinality(CallsOf(r, "create")) <= 1
        /\ CallsOf(r, "delete") = {}
        /\ notion[r].id # None => notion[r].id \in DOMAIN store
        /\ (Done(r) /\ Classified(r) /\ Creates(BranchOf(r)))
           => Cardinality(CallsOf(r, "create")) = 1

\* C19: a link patch carries exactly one property, the link field of its
\* branch, and the patched record keeps every property of the page that was
\* created.
C19_PatchTouchesOnlyLink ==
    \A r \in AllReqs :
        \A i \in CallsOf(r, "patch") :
            /\ DOMAIN calls[r][i].properties = {LinkField(BranchOf(r))}
            /\ LinkField(BranchOf(r)) \in {"Calendar Link", "Email Link"}
            /\ calls[r][i].id \in DOMAIN store
               => \A k \in DOMAIN PageOf(r) :
                      store[calls[r][i].id][k] = PageOf(r)[k]

\* C19 witness: a patch was applied: the record holds the link it carried.
C19_Witness ==
    \E r \in AllReqs :
        /\ Done(r)
        /\ CallsOf(r, "patch") # {}
        /\ notion[r].id \in DOMAIN store
        /\ LinkField(BranchOf(r)) \in DOMAIN store[notion[r].id]
        /\ store[notion[r].id][LinkField(BranchOf(r))] = link[r]

\* C20: under any interleaving of requests, every link patch of a request
\* goes to the identifier its own create returned, which is not null and
\* was returned to no other request, comes after its create succeeded and
\* after its forward, and carries the non-empty link taken from the
\* handler's answer.
C20_PatchTargetsOwnRecord ==
    \A r \in AllReqs :
        \A i \in CallsOf(r, "patch") :
            /\ calls[r][i].id # None
            /\ calls[r][i].id = notion[r].id
            /\ notion[r].status = 200
            /\ \A other \in AllReqs \ {r} : notion[other].id # calls[r][i].id
            /\ \E j \in CallsOf(r, "create"), k \in CallsOf(r, "forward") :
                   j < k /\ k < i
            /\ Truthy(calls[r][i].properties[LinkField(BranchOf(r))])
            /\ calls[r][i].properties[LinkField(BranchOf(r))] =
                   LinkOf(BranchOf(r), agent[r].body)

\* C20 witness: one request has patched its record while another, whose
\* record was created in between, is about to patch its own.
C20_Witness ==
    \E r \in AllReqs, other \in AllReqs :
        /\ r # other
        /\ Done(r) /\ CallsOf(r, "patch") # {}
        /\ pc[other] = "patch"
        /\ notion[other].id = NotionId(2)
        /\ notion[r].id = NotionId(1)

====
